---- MODULE Spec2Model ----
(***************************************************************************)
(* mcp-registry-interface (src/src/index.js): the README parser, the       *)
(* five-minute cache in front of the GitHub fetch, and the tools/call      *)
(* dispatcher with its four tools.                                         *)
(*                                                                         *)
(* Strings are sequences of one-character strings, so that toLowerCase,    *)
(* includes, trim and the id normalisations are computed character by      *)
(* character.  A README is a sequence of lines; a line is a record:        *)
(*   [kind |-> "refhead"]   the line  ## Reference Servers                 *)
(*   [kind |-> "comhead"]   the line  ## Community Servers                 *)
(*   [kind |-> "head"]      any other line holding ##                      *)
(*   [kind |-> "bullet", name, desc]   the line  - **name** - desc         *)
(*   [kind |-> "bold", name, desc]     the line  **name** - desc           *)
(*   [kind |-> "text"]      a line none of the patterns matches            *)
(* The random downloads/stars of an entry and its repository url are read  *)
(* only by the text formatting and are left out of the entry records.      *)
(***************************************************************************)
EXTENDS Integers, Sequences, FiniteSets, TLC

VARIABLES
    cachedServers,   \* index.js:152  [held, servers]; held = FALSE is null
    lastFetchTime,   \* index.js:153
    clock,           \* what Date.now() returns
    pending,         \* the invocation suspended at the await of fetch, if any
    response,        \* the result of the invocation that completed last
    calls,           \* the last getServersData() calls that completed (at most two)
    content,         \* parser run: the README handed to parseREADMEContent
    servers,         \* parser run: the array parseREADMEContent builds
    stage            \* parser run: the position inside parseREADMEContent

vars == <<cachedServers, lastFetchTime, clock, pending, response, calls,
          content, servers, stage>>

(***************************************************************************)
(* Strings                                                                 *)
(***************************************************************************)
UpperChars == <<"A","B","C","D","E","F","G","H","I","J","K","L","M",
                "N","O","P","Q","R","S","T","U","V","W","X","Y","Z">>
LowerChars == <<"a","b","c","d","e","f","g","h","i","j","k","l","m",
                "n","o","p","q","r","s","t","u","v","w","x","y","z">>
DigitChars == <<"0","1","2","3","4","5","6","7","8","9">>

Range(f) == {f[i] : i \in DOMAIN f}

Min(a, b) == IF a < b THEN a ELSE b
Max(a, b) == IF a > b THEN a ELSE b

UpperSet == Range(UpperChars)

LowerOf == [c \in UpperSet |->
               LowerChars[CHOOSE i \in DOMAIN UpperChars : UpperChars[i] = c]]

LowerChar(c) == IF c \in UpperSet THEN LowerOf[c] ELSE c

\* String.prototype.toLowerCase
ToLowerCase(s) == [i \in DOMAIN s |-> LowerChar(s[i])]

IsSpace(c) == c \in {" ", "\t"}

\* String.prototype.includes
Includes(s, t) ==
    \E i \in 0..(Len(s) - Len(t)) : SubSeq(s, i + 1, i + Len(t)) = t

\* String.prototype.trim
RECURSIVE TrimLeft(_)
TrimLeft(s) == IF s # <<>> /\ IsSpace(Head(s)) THEN TrimLeft(Tail(s)) ELSE s

RECURSIVE TrimRight(_)
TrimRight(s) ==
    IF s # <<>> /\ IsSpace(s[Len(s)]) THEN TrimRight(SubSeq(s, 1, Len(s) - 1)) ELSE s

Trim(s) == TrimRight(TrimLeft(s))

\* s.replace(/\s+/g, '-'): every run of white space becomes one hyphen
RECURSIVE ReplaceSpaceRuns(_)
ReplaceSpaceRuns(s) ==
    IF s = <<>> THEN <<>>
    ELSE IF IsSpace(Head(s))
         THEN <<"-">> \o ReplaceSpaceRuns(TrimLeft(s))
         ELSE <<Head(s)>> \o ReplaceSpaceRuns(Tail(s))

\* s.replace(/[^a-z0-9-]/g, '-')
IdChars == Range(LowerChars) \cup Range(DigitChars) \cup {"-"}

ReplaceNonIdChars(s) == [i \in DOMAIN s |-> IF s[i] \in IdChars THEN s[i] ELSE "-"]

\* s.replace(/-+/g, '-'): every run of hyphens becomes one hyphen
RECURSIVE CollapseHyphens(_)
CollapseHyphens(s) ==
    IF Len(s) < 2 THEN s
    ELSE IF s[1] = "-" /\ s[2] = "-"
         THEN CollapseHyphens(Tail(s))
         ELSE <<Head(s)>> \o CollapseHyphens(Tail(s))

\* string literals of the source
STR_mcp_ == <<"m","c","p","-">>
STR_MCP == <<"M","C","P">>
STR_server == <<"s","e","r","v","e","r">>
STR_official == <<"o","f","f","i","c","i","a","l">>
STR_community == <<"c","o","m","m","u","n","i","t","y">>
STR_reference == <<"r","e","f","e","r","e","n","c","e">>
STR_other == <<"o","t","h","e","r">>

(***************************************************************************)
(* parseREADMEContent                                                      *)
(***************************************************************************)
\* match[1].toLowerCase().replace(/\s+/g, '-')
SectionId(name) == ReplaceSpaceRuns(ToLowerCase(name))

\* name.toLowerCase().replace(/[^a-z0-9-]/g, '-').replace(/-+/g, '-')
FallbackId(name) == CollapseHyphens(ReplaceNonIdChars(ToLowerCase(name)))

\* content.match(/## <title> Servers[\s\S]*?(?=##|$)/i), then split('\n'):
\* the lines from the first heading of that kind up to the next line holding ##
SectionLines(doc, headKind) ==
    IF \E i \in DOMAIN doc : doc[i].kind = headKind
    THEN LET first == CHOOSE i \in DOMAIN doc :
                          /\ doc[i].kind = headKind
                          /\ \A j \in 1..(i - 1) : doc[j].kind # headKind
             IsHead(j) == doc[j].kind \in {"refhead", "comhead", "head"}
             last == IF \E j \in (first + 1)..Len(doc) : IsHead(j)
                     THEN (CHOOSE j \in (first + 1)..Len(doc) :
                               /\ IsHead(j)
                               /\ \A k \in (first + 1)..(j - 1) : ~IsHead(k)) - 1
                     ELSE Len(doc)
         IN  SubSeq(doc, first, last)
    ELSE <<>>

\* line.match(/^[•·-]\s*\*\*([^*]+)\*\*\s*-\s*(.+)/)
BulletMatch(line) == line.kind = "bullet" /\ line.name # <<>> /\ line.desc # <<>>

ReferenceEntry(line) ==
    [id |-> STR_mcp_ \o SectionId(line.name),
     name |-> STR_mcp_ \o SectionId(line.name),
     description |-> line.desc,
     category |-> STR_official,
     author |-> "Anthropic",
     version |-> "1.0.0",
     tags |-> <<STR_official, STR_reference>>]

CommunityEntry(line) ==
    [id |-> SectionId(line.name),
     name |-> line.name,
     description |-> line.desc,
     category |-> STR_community,
     author |-> "Community",
     version |-> "0.1.0",
     tags |-> <<STR_community>>]

\* variant: a name without MCP or server is put in category other
FallbackEntryOther(line) ==
    [id |-> FallbackId(line.name),
     name |-> line.name,
     description |-> Trim(line.desc),
     category |-> IF Includes(line.name, STR_MCP) \/ Includes(line.name, STR_server)
                  THEN STR_official ELSE STR_other,
     author |-> "Community",
     version |-> "1.0.0",
     tags |-> <<IF Includes(line.name, STR_MCP) THEN STR_official ELSE STR_community>>]

FallbackEntry(line) ==
    [id |-> FallbackId(line.name),
     name |-> line.name,
     description |-> Trim(line.desc),
     category |-> IF Includes(line.name, STR_MCP) \/ Includes(line.name, STR_server)
                  THEN STR_official ELSE STR_community,
     author |-> "Community",
     version |-> "1.0.0",
     tags |-> <<IF Includes(line.name, STR_MCP) THEN STR_official ELSE STR_community>>]

\* lines.forEach(line => { if (match) servers.push(...) }) of the reference pass
ReferencePush(acc, lines) ==
    LET matched == SelectSeq(lines, BulletMatch)
    IN  acc \o [i \in DOMAIN matched |-> ReferenceEntry(matched[i])]

ReferencePass(acc, doc) == ReferencePush(acc, SectionLines(doc, "refhead"))

\* lines.forEach(line => { if (match) servers.push(...) }) of the community pass
CommunityPush(acc, lines) ==
    LET matched == SelectSeq(lines, BulletMatch)
    IN  acc \o [i \in DOMAIN matched |-> CommunityEntry(matched[i])]

CommunityPass(acc, doc) == CommunityPush(acc, SectionLines(doc, "comhead"))

\* /\*\*([^*]+)\*\*\s*-\s*([^•·\n]+)/g finds the bold name of a bullet line and
\* of a bare bold line alike
FallbackMatch(line) == line.kind \in {"bullet", "bold"}

FallbackNameLimit == 50

\* name && description && name.length < 50
FallbackAccepts(line) ==
    /\ line.name # <<>>
    /\ line.desc # <<>>
    /\ Len(line.name) < FallbackNameLimit

\* !servers.find(s => s.id === serverId)
NotFoundById(acc, serverId) == ~ \E i \in DOMAIN acc : acc[i].id = serverId

\* while ((match = serverPattern.exec(content)) !== null) { ... }: a match
\* that passes the tests is pushed when servers holds no entry of its id, that
\* is none of acc and none pushed for an earlier match
FallbackPush(acc, lines) ==
    LET Passes(line) == FallbackMatch(line) /\ FallbackAccepts(line)
        matched == SelectSeq(lines, Passes)
        ids == <<>> \o [i \in DOMAIN matched |-> FallbackId(matched[i].name)]
        Pushed(i) == /\ NotFoundById(acc, ids[i])
                     /\ \A j \in 1..(i - 1) : ids[j] # ids[i]
        pushed == SelectSeq([i \in DOMAIN matched |-> i], Pushed)
    IN  acc \o [k \in DOMAIN pushed |-> FallbackEntry(matched[pushed[k]])]

FallbackPass(acc, doc) == FallbackPush(acc, doc)

MaxServers == 50

\* variant: return servers
TruncateNothing(acc) == acc

\* variant: servers.slice(-50)
TruncateLast(acc) == SubSeq(acc, Max(Len(acc) - MaxServers + 1, 1), Len(acc))

\* servers.slice(0, 50)
Truncate(acc) == SubSeq(acc, 1, Min(Len(acc), MaxServers))

parseREADMEContent(doc) ==
    Truncate(FallbackPass(CommunityPass(ReferencePass(<<>>, doc), doc), doc))


(***************************************************************************)
(* README lines and documents the upstream can serve                       *)
(***************************************************************************)
RefHead == [kind |-> "refhead"]
ComHead == [kind |-> "comhead"]
OtherHead == [kind |-> "head"]
TextLine == [kind |-> "text"]
Bullet(n, d) == [kind |-> "bullet", name |-> n, desc |-> d]
Bold(n, d) == [kind |-> "bold", name |-> n, desc |-> d]

N_Filesystem == <<"F","i","l","e","s","y","s","t","e","m">>
N_SlackBot == <<"S","l","a","c","k"," ","B","o","t">>
N_slack_bot == <<"s","l","a","c","k","-","b","o","t">>
N_mcp_filesystem == <<"m","c","p","-","f","i","l","e","s","y","s","t","e","m">>
N_a_dot_b == <<"a",".","b">>
N_MCPHub == <<"M","C","P"," ","H","u","b">>
N_Git == <<"G","i","t">>
N_Long == [i \in 1..FallbackNameLimit |-> "x"]

D_Secure == <<"S","e","c","u","r","e"," ","f","i","l","e"," ","o","p","s">>
D_Chat == <<"C","h","a","t"," ","i","n","t","e","g","r","a","t","i","o","n">>
D_Tools == <<"T","o","o","l","s"," ">>

\* the end-to-end document of the specification, section 8
DocExample ==
    <<RefHead, Bullet(N_Filesystem, D_Secure), ComHead, Bullet(N_SlackBot, D_Chat)>>

DocGit == <<ComHead, Bullet(N_Git, D_Tools)>>

\* a README in which no pattern finds anything
DocNoServers == <<OtherHead, TextLine>>

BlockLines == 26

\* the name of the i-th bullet of a generated block: G01, G02, ...
GenName(i) == <<"G", DigitChars[(i \div 10) + 1], DigitChars[(i % 10) + 1]>>

\* a long list of servers
Block == [i \in 1..BlockLines |-> Bullet(GenName(i), D_Tools)]

\* a README whose reference section lists more servers than half of what
\* parseREADMEContent returns at most
DocMany == <<RefHead>> \o Block

LetterChars == <<"a","b","c","d","e","f","g","h","i","j">>

\* the name of the i-th generated bullet: K a, K b, ...
KitName(i) == <<"K"," ", LetterChars[i]>>

BigSection == 7

\* BigSection reference bullets and as many community bullets, all distinct
DocBig ==
    <<RefHead>> \o [i \in 1..BigSection |-> Bullet(KitName(i), D_Tools)] \o
    <<ComHead>> \o [i \in 1..BigSection |-> Bullet(<<"x">> \o KitName(i), D_Tools)]

\* every README the upstream serves in some run
ServedDocs == {DocExample, DocGit, DocNoServers, DocMany, DocBig}

\* fetchRealMCPServers when the request succeeds: the README it receives is
\* decoded and handed to parseREADMEContent, whose result it returns
fetchRealMCPServers == [doc \in ServedDocs |-> parseREADMEContent(doc)]


(***************************************************************************)
(* The cache and getServersData                                            *)
(***************************************************************************)
CACHE_DURATION == 5 * 60 * 1000

\* let cachedServers = null
NullCache == [held |-> FALSE, servers |-> <<>>]

Holding(list) == [held |-> TRUE, servers |-> list]

\* variant: the age test reversed
CacheIsRecentReversed(cache, last, now) == cache.held /\ (now - last) > CACHE_DURATION

\* variant: a snapshot of exactly CACHE_DURATION still served
CacheIsRecentInclusive(cache, last, now) == cache.held /\ (now - last) <= CACHE_DURATION

\* cachedServers && (now - lastFetchTime) < CACHE_DURATION
CacheIsRecent(cache, last, now) == cache.held /\ (now - last) < CACHE_DURATION

\* variant: the length test left out
FetchedAnything(list) == TRUE

\* servers && servers.length > 0
FetchedSomething(list) == Len(list) > 0

(***************************************************************************)
(* The tools/call handler                                                  *)
(***************************************************************************)
SEARCH == "registry_search_servers"
DETAILS == "registry_get_server_details"
CATEGORIES == "registry_list_categories"
REFRESH == "registry_refresh_data"

\* the tools the ListTools handler declares
DeclaredTools == {SEARCH, DETAILS, CATEGORIES, REFRESH}

DefaultLimit == 20

Has(rec, field) == field \in DOMAIN rec

\* Array.prototype.slice(0, end)
Slice0(list, end) ==
    SubSeq(list, 1, IF end < 0 THEN Max(Len(list) + end, 0) ELSE Min(end, Len(list)))

\* server.name.toLowerCase().includes(searchTerm) || ...description... ||
\* server.tags.some(tag => tag.toLowerCase().includes(searchTerm))
MatchesQuery(server, searchTerm) ==
    \/ Includes(ToLowerCase(server.name), searchTerm)
    \/ Includes(ToLowerCase(server.description), searchTerm)
    \/ \E t \in DOMAIN server.tags : Includes(ToLowerCase(server.tags[t]), searchTerm)

\* server.category.toLowerCase() === category.toLowerCase()
MatchesCategory(server, category) ==
    ToLowerCase(server.category) = ToLowerCase(category)

\* if (query) { ... servers.filter(...) }
ApplyQuery(list, args) ==
    IF Has(args, "query") /\ args.query # <<>>
    THEN LET Keep(server) == MatchesQuery(server, ToLowerCase(args.query))
         IN  SelectSeq(list, Keep)
    ELSE list

\* if (category) { ... filteredServers.filter(...) }
ApplyCategory(list, args) ==
    IF Has(args, "category") /\ args.category # <<>>
    THEN LET Keep(server) == MatchesCategory(server, args.category)
         IN  SelectSeq(list, Keep)
    ELSE list

\* const { query, category, limit = 20 } = args; ... .slice(0, limit)
ApplyLimit(list, args) ==
    Slice0(list, IF Has(args, "limit") THEN args.limit ELSE DefaultLimit)

\* variant: the category filter applied to servers instead of filteredServers
SearchServersCategoryOnly(list, args) == ApplyLimit(ApplyCategory(list, args), args)

SearchServers(list, args) == ApplyLimit(ApplyCategory(ApplyQuery(list, args), args), args)

\* variant: the two mcp- alternatives left out
DetailsMatchExact(server, serverId) ==
    \/ server.id = serverId
    \/ server.name = serverId

\* servers.find(s => s.id === serverId || s.name === serverId ||
\*                   s.id === `mcp-${serverId}` || s.name === `mcp-${serverId}`)
DetailsMatch(server, serverId) ==
    \/ server.id = serverId
    \/ server.name = serverId
    \/ server.id = STR_mcp_ \o serverId
    \/ server.name = STR_mcp_ \o serverId

FindServer(list, serverId) ==
    LET Keep(server) == DetailsMatch(server, serverId)
        found == SelectSeq(list, Keep)
    IN  IF found = <<>> THEN <<>> ELSE <<Head(found)>>

\* const cat = server.category || 'other'
CategoryOf(server) == IF server.category # <<>> THEN server.category ELSE STR_other

\* the keys of the categories object in insertion order: the category of
\* every entry that is the first of its category
CategoryKeys(list) ==
    LET First(i) == \A j \in 1..(i - 1) : CategoryOf(list[j]) # CategoryOf(list[i])
        firsts == SelectSeq([i \in DOMAIN list |-> i], First)
    IN  <<>> \o [k \in DOMAIN firsts |-> CategoryOf(list[firsts[k]])]

\* variant: an entry of a category already seen is not counted
CountCategoriesOnce(list) ==
    LET keys == CategoryKeys(list)
    IN  <<>> \o [k \in DOMAIN keys |-> [name |-> keys[k], count |-> 1]]

\* servers.forEach(server => { ... categories[cat].count++ }): the categories
\* object as its entries in insertion order
CountCategories(list) ==
    LET keys == CategoryKeys(list)
    IN  <<>> \o [k \in DOMAIN keys |->
                    [name |-> keys[k],
                     count |-> Cardinality({i \in DOMAIN list :
                                               CategoryOf(list[i]) = keys[k]})]]

\* what the body of the try block yields: a returned result or a thrown error
Returned(kind, list, count, cats) ==
    [thrown |-> FALSE, kind |-> kind, message |-> "", entries |-> list,
     count |-> count, categories |-> cats]

Thrown(message) ==
    [thrown |-> TRUE, kind |-> "error", message |-> message, entries |-> <<>>,
     count |-> 0, categories |-> <<>>]

\* variant: the switch without case 'registry_refresh_data'
HandledToolsWithoutRefresh == {SEARCH, DETAILS, CATEGORIES}

\* the case labels of switch (name)
HandledTools == {SEARCH, DETAILS, CATEGORIES, REFRESH}

\* variant: if (serverId === undefined) throw ...
ThrowsBeforeDataUndefinedOnly(req) ==
    IF req.name \notin HandledTools THEN "Unknown tool"
    ELSE IF req.name = SEARCH /\ ~Has(req, "arguments") THEN "TypeError"
    ELSE IF req.name = DETAILS /\ ~Has(req, "arguments") THEN "TypeError"
    ELSE IF req.name = DETAILS /\ ~Has(req.arguments, "serverId")
         THEN "serverId is required"
    ELSE ""

\* the part of a case that runs before await getServersData(): the error it
\* throws there, or "" when it reaches the call
ThrowsBeforeData(req) ==
    IF req.name \notin HandledTools THEN "Unknown tool"
    ELSE IF req.name = SEARCH /\ ~Has(req, "arguments") THEN "TypeError"
    ELSE IF req.name = DETAILS /\ ~Has(req, "arguments") THEN "TypeError"
    ELSE IF req.name = DETAILS
            /\ (~Has(req.arguments, "serverId") \/ req.arguments.serverId = <<>>)
         THEN "serverId is required"
    ELSE ""

\* the part of a case that runs once getServersData() has returned list
AfterData(req, list) ==
    CASE req.name = SEARCH ->
            LET found == SearchServers(list, req.arguments)
            IN  Returned("search", found, Len(found), <<>>)
      [] req.name = DETAILS ->
            LET found == FindServer(list, req.arguments.serverId)
            IN  IF found = <<>>
                THEN Returned("not found", <<>>, 0, <<>>)
                ELSE Returned("details", found, 1, <<>>)
      [] req.name = CATEGORIES ->
            Returned("categories", <<>>, 0, CountCategories(list))
      [] req.name = REFRESH ->
            Returned("refresh", <<>>, Len(list), <<>>)

\* variant: no catch around the switch
CatchRethrows(outcome) == outcome @@ [isError |-> FALSE]

\* catch (error) { return { content: [...], isError: true } }
Catch(outcome) ==
    IF outcome.thrown
    THEN [outcome EXCEPT !.thrown = FALSE] @@ [isError |-> TRUE]
    ELSE outcome @@ [isError |-> FALSE]


(***************************************************************************)
(* State machine of the server                                             *)
(***************************************************************************)
\* variant: registry_refresh_data without the two assignments
CacheAtCallKept(req, cache, last) == [cache |-> cache, last |-> last]

\* variant: the two assignments placed before the switch
CacheAtCallCleared(req, cache, last) == [cache |-> NullCache, last |-> 0]

\* case 'registry_refresh_data': cachedServers = null; lastFetchTime = 0;
\* the cache as getServersData() finds it when the case calls it
CacheAtCall(req, cache, last) ==
    IF req.name = REFRESH
    THEN [cache |-> NullCache, last |-> 0]
    ELSE [cache |-> cache, last |-> last]

\* if (servers && servers.length > 0) { cachedServers = servers;
\* lastFetchTime = now; return servers } throw new Error('Unable to fetch ...')
StoreFetched(cache, last, list, now) ==
    IF FetchedSomething(list)
    THEN [cache |-> Holding(list), last |-> now, threw |-> FALSE]
    ELSE [cache |-> cache, last |-> last, threw |-> TRUE]

\* variant: a failed fetch answered from the snapshot still held
FetchRejectedServesStale(req, cache, error) == AfterData(req, cache.servers)

\* fetchRealMCPServers: catch (error) { ...; throw error }, which getServersData
\* does not catch
FetchRejected(req, cache, error) == Thrown(error)

\* the result handed to the transport, with what the invocation did:
\*   now        Date.now() as getServersData() read it
\*   fetched    the number of upstream fetches the invocation issued
\*   before     the cache when the handler was entered
\*   atCall     the cache when getServersData() was entered
\*   reached    whether the handler came to call getServersData()
\*   extracted  the number of entries parsed from the fetched README
\*              (-1: nothing was fetched, or the fetch failed)
\*   got        the array getServersData() returned
Respond(req, outcome, did) == Catch(outcome) @@ [req |-> req] @@ did

NoCache == [cache |-> NullCache, last |-> 0]

NoResponse ==
    [thrown |-> FALSE, kind |-> "none", message |-> "", entries |-> <<>>,
     count |-> 0, categories |-> <<>>, isError |-> FALSE,
     req |-> [name |-> "none"], now |-> 0, fetched |-> 0,
     before |-> NoCache, atCall |-> NoCache, reached |-> FALSE,
     extracted |-> -1, got |-> <<>>]

\* a completed getServersData() call: when it started, how many fetches it
\* issued, whether it stored a snapshot or threw, and the cache it found
CallRecord(now, fetched, stored, threw, atCall) ==
    [now |-> now, fetched |-> fetched, stored |-> stored, threw |-> threw,
     held |-> atCall.cache.held, last |-> atCall.last]

PushCall(c) == IF Len(calls) < 2 THEN Append(calls, c) ELSE <<calls[2], c>>

RemoveAt(seq, i) == SubSeq(seq, 1, i - 1) \o SubSeq(seq, i + 1, Len(seq))

ParserIdle == UNCHANGED <<content, servers, stage>>

\* a tools/call request arrives: the handler runs to its return, or to the
\* await of the fetch inside getServersData()
Invoke(req) ==
    LET err == ThrowsBeforeData(req)
        before == [cache |-> cachedServers, last |-> lastFetchTime]
        at == CacheAtCall(req, cachedServers, lastFetchTime)
        now == clock
    IN  /\ ParserIdle
        /\ UNCHANGED clock
        /\ IF err # ""
           THEN /\ response' = Respond(req, Thrown(err),
                                  [now |-> now, fetched |-> 0, before |-> before,
                                   atCall |-> before, reached |-> FALSE,
                                   extracted |-> -1, got |-> <<>>])
                /\ UNCHANGED <<cachedServers, lastFetchTime, pending, calls>>
           ELSE /\ cachedServers' = at.cache
                /\ lastFetchTime' = at.last
                /\ IF CacheIsRecent(at.cache, at.last, now)
                   THEN /\ response' = Respond(req, AfterData(req, at.cache.servers),
                                          [now |-> now, fetched |-> 0, before |-> before,
                                           atCall |-> at, reached |-> TRUE,
                                           extracted |-> -1, got |-> at.cache.servers])
                        /\ calls' = PushCall(CallRecord(now, 0, FALSE, FALSE, at))
                        /\ UNCHANGED pending
                   ELSE /\ pending' = Append(pending,
                                          [req |-> req, now |-> now, before |-> before,
                                           atCall |-> at])
                        /\ response' = NoResponse
                        /\ UNCHANGED calls

\* the fetch of invocation i resolves with the README doc
FetchOk(i, doc) ==
    LET p == pending[i]
        list == fetchRealMCPServers[doc]
        st == StoreFetched(cachedServers, lastFetchTime, list, p.now)
        did == [now |-> p.now, fetched |-> 1, before |-> p.before,
                atCall |-> p.atCall, reached |-> TRUE, extracted |-> Len(list),
                got |-> IF st.threw THEN <<>> ELSE list]
    IN  /\ ParserIdle
        /\ UNCHANGED clock
        /\ pending' = RemoveAt(pending, i)
        /\ cachedServers' = st.cache
        /\ lastFetchTime' = st.last
        /\ calls' = PushCall(CallRecord(p.now, 1, ~st.threw, st.threw, p.atCall))
        /\ response' = IF st.threw
                       THEN Respond(p.req, Thrown("Unable to fetch"), did)
                       ELSE Respond(p.req, AfterData(p.req, list), did)

FetchErrors == {"GitHub API error", "fetch failed"}

\* the fetch of invocation i fails: the transport fails, or !response.ok
FetchFail(i, error) ==
    LET p == pending[i]
        out == FetchRejected(p.req, cachedServers, error)
    IN  /\ ParserIdle
        /\ UNCHANGED <<clock, cachedServers, lastFetchTime>>
        /\ pending' = RemoveAt(pending, i)
        /\ calls' = PushCall(CallRecord(p.now, 1, FALSE, out.thrown, p.atCall))
        /\ response' = Respond(p.req, out,
                          [now |-> p.now, fetched |-> 1, before |-> p.before,
                           atCall |-> p.atCall, reached |-> TRUE, extracted |-> -1,
                           got |-> <<>>])

\* how far Date.now() advances between two events
TickSteps == {1, CACHE_DURATION - 1}

MaxTicks == 3

StartTime == 2 * CACHE_DURATION

TicksSoFar ==
    ((clock - StartTime) % (CACHE_DURATION - 1)) +
    ((clock - StartTime) \div (CACHE_DURATION - 1))

Tick(step) ==
    /\ TicksSoFar < MaxTicks
    /\ clock' = clock + step
    /\ UNCHANGED <<cachedServers, lastFetchTime, pending, response, calls>>
    /\ ParserIdle

F_filesystem == <<"f","i","l","e","s","y","s","t","e","m">>

\* the requests of the cache runs
Requests ==
    { [name |-> SEARCH, arguments |-> <<>>],
      [name |-> SEARCH],
      [name |-> DETAILS, arguments |-> [serverId |-> F_filesystem]],
      [name |-> DETAILS, arguments |-> [serverId |-> <<>>]],
      [name |-> DETAILS, arguments |-> <<>>],
      [name |-> CATEGORIES, arguments |-> <<>>],
      [name |-> REFRESH, arguments |-> <<>>],
      [name |-> "registry_get_popular", arguments |-> <<>>] }

\* the READMEs the upstream serves in the cache runs
Docs == {DocExample, DocGit, DocMany, DocNoServers}

Init ==
    /\ cachedServers = NullCache
    /\ lastFetchTime = 0
    /\ clock = StartTime
    /\ pending = <<>>
    /\ response = NoResponse
    /\ calls = <<>>
    /\ content = <<>>
    /\ servers = <<>>
    /\ stage = "edit"

\* runs of a client that sends a request once the previous one is answered,
\* as sendRequest of test.js is used: a request is taken up when none is
\* suspended
Next ==
    \/ \E req \in Requests : pending = <<>> /\ Invoke(req)
    \/ \E i \in DOMAIN pending : \E doc \in Docs : FetchOk(i, doc)
    \/ \E i \in DOMAIN pending : \E error \in FetchErrors : FetchFail(i, error)
    \/ \E step \in TickSteps : Tick(step)

Spec == Init /\ [][Next]_vars


(***************************************************************************)
(* Overlapping runs: the handler is an async function that nothing in the  *)
(* program queues or locks, so a request that arrives while an earlier     *)
(* invocation is suspended at its await is taken up at once                *)
(***************************************************************************)
MaxPending == 2

MaxConcTicks == 2

ConcRequests ==
    { [name |-> SEARCH, arguments |-> <<>>],
      [name |-> REFRESH, arguments |-> <<>>] }

\* the READMEs the upstream serves in the overlapping runs
ConcDocs == {DocExample, DocGit}

NextConc ==
    \/ \E req \in ConcRequests : Len(pending) < MaxPending /\ Invoke(req)
    \/ \E i \in DOMAIN pending : \E doc \in ConcDocs : FetchOk(i, doc)
    \/ \E i \in DOMAIN pending : FetchFail(i, "fetch failed")
    \/ \E step \in TickSteps : TicksSoFar < MaxConcTicks /\ Tick(step)

SpecConc == Init /\ [][NextConc]_vars


(***************************************************************************)
(* Query runs: the four tools over snapshots of several sizes, with the    *)
(* clock standing still                                                    *)
(***************************************************************************)
QueryDocs == {DocExample, DocGit, DocBig, DocNoServers}

MaxLimit == 2

Limits == (-1)..MaxLimit

Q_FILE == <<"F","I","L","E">>
Q_Official == <<"O","f","f","i","c","i","a","l">>
Q_zz == <<"z","z">>

Queries == {<<>>, Q_FILE, Q_Official, Q_zz}

C_OFFICIAL == <<"O","F","F","I","C","I","A","L">>

Categories == {<<>>, C_OFFICIAL, STR_community, STR_other}

\* every way of giving or leaving out query, category and limit
SearchArguments ==
    LET Opt(field, values) == {<<>>} \cup {[f \in {field} |-> v] : v \in values}
    IN  {q @@ c @@ l : q \in Opt("query", Queries),
                       c \in Opt("category", Categories),
                       l \in Opt("limit", Limits)}

ServerIds == {F_filesystem, N_SlackBot, N_slack_bot, N_mcp_filesystem, Q_zz, <<>>}

QueryRequests ==
    {[name |-> SEARCH, arguments |-> a] : a \in SearchArguments} \cup
    {[name |-> DETAILS, arguments |-> [serverId |-> id]] : id \in ServerIds} \cup
    { [name |-> CATEGORIES, arguments |-> <<>>],
      [name |-> REFRESH, arguments |-> <<>>] }

NextQuery ==
    \/ \E req \in QueryRequests : pending = <<>> /\ Invoke(req)
    \/ \E i \in DOMAIN pending : \E doc \in QueryDocs : FetchOk(i, doc)
    \/ \E i \in DOMAIN pending : \E error \in FetchErrors : FetchFail(i, error)

SpecQuery == Init /\ [][NextQuery]_vars

(***************************************************************************)
(* Parser runs: a README is written line by line and then parsed, one      *)
(* pass of parseREADMEContent at a time                                    *)
(***************************************************************************)
MaxLines == 4

ParseLines ==
    { RefHead, ComHead,
      Bullet(N_Filesystem, D_Secure), Bullet(N_SlackBot, D_Chat),
      Bullet(N_slack_bot, D_Chat), Bullet(N_mcp_filesystem, D_Tools),
      Bullet(N_a_dot_b, D_Tools),
      Bold(N_MCPHub, D_Tools), Bold(N_Long, D_Tools) }

ServerIdle == UNCHANGED <<cachedServers, lastFetchTime, clock, pending, response, calls>>

EditAppend(line) ==
    /\ stage = "edit"
    /\ Len(content) < MaxLines
    /\ content' = Append(content, line)
    /\ UNCHANGED <<servers, stage>>
    /\ ServerIdle

\* a long list of servers closes the README
EditAppendBlock ==
    /\ stage = "edit"
    /\ Len(content) < MaxLines
    /\ content' = content \o Block
    /\ UNCHANGED <<servers, stage>>
    /\ ServerIdle

RunReferencePass ==
    /\ stage = "edit"
    /\ servers' = ReferencePass(<<>>, content)
    /\ stage' = "reference"
    /\ UNCHANGED content
    /\ ServerIdle

RunCommunityPass ==
    /\ stage = "reference"
    /\ servers' = CommunityPass(servers, content)
    /\ stage' = "community"
    /\ UNCHANGED content
    /\ ServerIdle

RunFallbackPass ==
    /\ stage = "community"
    /\ servers' = FallbackPass(servers, content)
    /\ stage' = "fallback"
    /\ UNCHANGED content
    /\ ServerIdle

RunTruncate ==
    /\ stage = "fallback"
    /\ servers' = Truncate(servers)
    /\ stage' = "done"
    /\ UNCHANGED content
    /\ ServerIdle

NextParse ==
    \/ \E line \in ParseLines : EditAppend(line)
    \/ EditAppendBlock
    \/ RunReferencePass
    \/ RunCommunityPass
    \/ RunFallbackPass
    \/ RunTruncate

SpecParse == Init /\ [][NextParse]_vars


(***************************************************************************)
(* Properties                                                              *)
(***************************************************************************)
\* the latest response is that of an invocation that called getServersData()
Answered == response.kind # "none" /\ response.reached

\* C1: of two consecutive getServersData() calls that both start less than
\* five minutes after the start of the call that stored the snapshot held
\* when the second one starts, the second issues no fetch, returns the held
\* snapshot and leaves the cache as it was; the only fetch of the two is the
\* one of the storing call, when that is the first of them.
C1_TwoCallsOneFetch ==
    Len(calls) = 2 =>
        LET prev == calls[1]
            last == calls[2]
        IN  ( /\ last.held
              /\ last.last <= prev.now /\ prev.now - last.last < CACHE_DURATION
              /\ last.last <= last.now /\ last.now - last.last < CACHE_DURATION )
            => /\ last.fetched = 0
               /\ prev.fetched + last.fetched = (IF prev.stored THEN 1 ELSE 0)
               /\ Answered =>
                    /\ response.got = response.atCall.cache.servers
                    /\ cachedServers = response.atCall.cache
                    /\ lastFetchTime = response.atCall.last

\* the second call starts one millisecond before the snapshot of the first expires
C1_Witness ==
    /\ Len(calls) = 2
    /\ calls[1].stored
    /\ calls[2].held
    /\ calls[2].last = calls[1].now
    /\ calls[2].now - calls[2].last = CACHE_DURATION - 1
    /\ calls[2].fetched = 0
    /\ Answered /\ response.got # <<>>

\* C2: an invocation whose fetch failed (transport, status or zero entries)
\* leaves cachedServers and lastFetchTime as they were when it was invoked.
C2_FailedFetchKeepsCache ==
    (response.kind # "none" /\ response.fetched = 1 /\ response.isError)
    => /\ cachedServers = response.before.cache
       /\ lastFetchTime = response.before.last

\* C3: registry_refresh_data issues a fetch whatever the age of the snapshot;
\* when it succeeds the cache holds the fetched snapshot and the count it
\* reports is the size of that snapshot.
C3_RefreshAlwaysFetches ==
    (response.kind # "none" /\ response.req.name = REFRESH)
    => /\ response.fetched = 1
       /\ ~response.isError =>
            /\ response.kind = "refresh"
            /\ response.extracted = Len(response.got)
            /\ cachedServers = Holding(response.got)
            /\ lastFetchTime = response.now
            /\ response.count = Len(cachedServers.servers)

\* a refresh replaces a snapshot that was still recent by another one
C3_Witness ==
    /\ response.req.name = REFRESH
    /\ ~response.isError
    /\ response.before.cache.held
    /\ response.now - response.before.last < CACHE_DURATION
    /\ response.before.cache.servers # cachedServers.servers
    /\ response.count = 3

\* C4: when the fetched README yields zero entries the invocation fails with
\* the 'Unable to fetch' error, no invocation is ever handed an empty array,
\* and the cache stays as getServersData() found it.
C4_EmptyExtractionFails ==
    /\ (response.fetched = 1 /\ response.extracted = 0)
       => /\ response.isError
          /\ response.message = "Unable to fetch"
          /\ cachedServers = response.atCall.cache
          /\ lastFetchTime = response.atCall.last
    /\ (Answered /\ ~response.isError) => response.got # <<>>

\* zero entries are extracted while a stale snapshot is held
C4_Witness ==
    /\ response.fetched = 1
    /\ response.extracted = 0
    /\ response.atCall.cache.held
    /\ cachedServers.held

\* C5: an invocation that needed a fetch which failed returns an isError
\* result carrying the error of the fetch, and lists nothing: no entry of the
\* stale snapshot, no count, no category.
C5_FailureNeverMasked ==
    (response.fetched = 1 /\ response.extracted <= 0)
    => /\ response.isError
       /\ response.message \in FetchErrors \cup {"Unable to fetch"}
       /\ response.got = <<>>
       /\ response.entries = <<>>
       /\ response.count = 0
       /\ response.categories = <<>>

\* the GitHub request fails while a snapshot of five minutes or more is held
C5_Witness ==
    /\ response.fetched = 1
    /\ response.extracted = -1
    /\ response.message \in FetchErrors
    /\ response.req.name = SEARCH
    /\ response.atCall.cache.held
    /\ response.now - response.atCall.last >= CACHE_DURATION

\* C6: every completed invocation hands the transport a result and throws
\* nothing; a failure in the handler (unknown tool, missing arguments or
\* serverId, failed fetch, empty extraction) is a result with isError true.
C6_FailuresAreResults ==
    response.kind # "none"
    => /\ ~response.thrown
       /\ response.isError = (response.kind = "error")
       /\ response.isError => response.message # ""
       /\ response.req.name \notin DeclaredTools => response.isError
       /\ (response.req.name \in {SEARCH, DETAILS} /\ ~Has(response.req, "arguments"))
          => response.isError
       /\ (response.req.name = DETAILS /\ Has(response.req, "arguments")
           /\ ~Has(response.req.arguments, "serverId")) => response.isError
       /\ (response.fetched = 1 /\ response.extracted <= 0) => response.isError

\* an unknown tool name is answered with an error result
C6_Witness ==
    /\ response.req.name = "registry_get_popular"
    /\ response.isError
    /\ response.message = "Unknown tool"
    /\ ~response.thrown


\* C7: the ids of the entries parseREADMEContent returns are pairwise distinct.
C7_IdsPairwiseDistinct ==
    stage = "done" =>
        \A i, j \in DOMAIN servers : i # j => servers[i].id # servers[j].id

\* line k of the README lies in the section that the first heading of kind
\* headKind opens
InSectionOf(k, headKind) ==
    \E r \in 1..(k - 1) :
        /\ content[r].kind = headKind
        /\ \A q \in 1..(r - 1) : content[q].kind # headKind
        /\ \A q \in (r + 1)..k : content[q].kind \notin {"refhead", "comhead", "head"}

\* the entries the fallback pass pushed: it alone sets this author and version
FromFallback(entry) == entry.author = "Community" /\ entry.version = "1.0.0"

\* C8: the fallback pass adds no entry for a bullet the reference or community
\* pass extracted; the README of section 8 of the specification yields exactly
\* mcp-filesystem (official) and slack-bot (community).
C8_FallbackAddsNoExtractedBullet ==
    stage \in {"fallback", "done"} =>
        /\ \A k \in DOMAIN content :
              ( /\ content[k].kind = "bullet"
                /\ InSectionOf(k, "refhead") \/ InSectionOf(k, "comhead") )
              => ~ \E i \in DOMAIN servers :
                      FromFallback(servers[i]) /\ servers[i].name = content[k].name
        /\ content = DocExample =>
              /\ Len(servers) = 2
              /\ servers[1].id = N_mcp_filesystem /\ servers[1].category = STR_official
              /\ servers[2].id = N_slack_bot /\ servers[2].category = STR_community

\* C9: a search without query and without category lists the first limit
\* entries of the snapshot in snapshot order, all of them when there are
\* fewer, with limit 20 when none is given; it never lists more than limit
\* entries (none for a limit below zero).
C9_NoFilterReturnsFirstLimit ==
    ( /\ response.kind = "search"
      /\ ~Has(response.req.arguments, "query")
      /\ ~Has(response.req.arguments, "category") )
    => LET limit == IF Has(response.req.arguments, "limit")
                    THEN response.req.arguments.limit ELSE 20
           atMost == IF limit < 0 THEN 0 ELSE limit
       IN  /\ Len(response.entries) <= atMost
           /\ response.entries =
                 SubSeq(response.got, 1,
                        IF Len(response.got) < atMost THEN Len(response.got) ELSE atMost)

\* two characters are equal up to the case of a letter
SameLetter(a, b) ==
    \/ a = b
    \/ \E k \in DOMAIN UpperChars : {a, b} = {UpperChars[k], LowerChars[k]}

EqualIgnoringCase(a, b) ==
    Len(a) = Len(b) /\ \A i \in DOMAIN a : SameLetter(a[i], b[i])

ContainsIgnoringCase(text, part) ==
    \E off \in 0..(Len(text) - Len(part)) :
        \A i \in DOMAIN part : SameLetter(text[off + i], part[i])

\* a is b with some of its elements left out
RECURSIVE IsSubsequence(_, _)
IsSubsequence(a, b) ==
    IF a = <<>> THEN TRUE
    ELSE IF b = <<>> THEN FALSE
    ELSE IF Head(a) = Head(b) THEN IsSubsequence(Tail(a), Tail(b))
    ELSE IsSubsequence(a, Tail(b))

\* C10: a search with a category lists only entries of that category, compared
\* without regard to case; with a query as well, every listed entry also has the
\* query in its name, its description or one of its tags, without regard to
\* case; the listed entries are in snapshot order.
C10_CategoryAndQuery ==
    response.kind = "search" =>
        LET args == response.req.arguments
            byCategory == Has(args, "category") /\ args.category # <<>>
            byQuery == Has(args, "query") /\ args.query # <<>>
        IN  /\ IsSubsequence(response.entries, response.got)
            /\ byCategory =>
                  \A i \in DOMAIN response.entries :
                      EqualIgnoringCase(response.entries[i].category, args.category)
            /\ (byCategory /\ byQuery) =>
                  \A i \in DOMAIN response.entries :
                      LET e == response.entries[i]
                      IN  \/ ContainsIgnoringCase(e.name, args.query)
                          \/ ContainsIgnoringCase(e.description, args.query)
                          \/ \E t \in DOMAIN e.tags :
                                 ContainsIgnoringCase(e.tags[t], args.query)

\* query FILE with category community: of the three entries of the example
\* README only the third has both
C10_Witness ==
    /\ response.kind = "search"
    /\ Has(response.req.arguments, "query")
    /\ Has(response.req.arguments, "category")
    /\ response.req.arguments.query = Q_FILE
    /\ response.req.arguments.category = STR_community
    /\ Len(response.got) = 3
    /\ Len(response.entries) = 1
    /\ response.entries[1] = response.got[3]

\* C11: registry_get_server_details answers with an entry of the snapshot
\* whenever some entry has an id or a name equal to serverId or to mcp-
\* followed by serverId, and the entry it answers with is the first such entry;
\* when the snapshot was obtained and no entry matches, the answer is the 'not
\* found' text and is no error.
C11_DetailsFindsOrNotFound ==
    (response.req.name = DETAILS /\ response.reached /\ response.got # <<>>)
    => LET id == response.req.arguments.serverId
           Named(e) == {e.id, e.name} \cap {id, <<"m","c","p","-">> \o id} # {}
           hits == {i \in DOMAIN response.got : Named(response.got[i])}
       IN  /\ ~response.isError
           /\ hits # {} =>
                 /\ response.kind = "details"
                 /\ \E i \in hits : /\ response.entries = <<response.got[i]>>
                                     /\ \A j \in hits : i <= j
           /\ hits = {} =>
                 /\ response.kind = "not found"
                 /\ response.entries = <<>>

\* serverId filesystem finds the entry whose id and name are mcp-filesystem
C11_Witness ==
    /\ response.req.name = DETAILS
    /\ response.reached
    /\ response.req.arguments.serverId = F_filesystem
    /\ response.kind = "details"
    /\ response.entries[1].id = N_mcp_filesystem
    /\ response.entries[1].name # F_filesystem

\* C12: registry_get_server_details without a serverId, absent or the empty
\* string, is answered with isError true; the invocation issues no fetch, is
\* never suspended on one, and leaves cachedServers and lastFetchTime as they
\* were.
C12_NoServerIdNoFetch ==
    LET NoId(req) ==
            /\ req.name = DETAILS
            /\ \/ ~Has(req, "arguments")
               \/ ~Has(req.arguments, "serverId")
               \/ req.arguments.serverId = <<>>
    IN  /\ \A i \in DOMAIN pending : ~NoId(pending[i].req)
        /\ NoId(response.req) =>
              /\ response.isError
              /\ response.message \in {"serverId is required", "TypeError"}
              /\ response.fetched = 0
              /\ ~response.reached
              /\ cachedServers = response.before.cache
              /\ lastFetchTime = response.before.last

\* an empty serverId is refused while a snapshot is held
C12_Witness ==
    /\ response.req.name = DETAILS
    /\ Has(response.req.arguments, "serverId")
    /\ response.req.arguments.serverId = <<>>
    /\ response.isError
    /\ response.message = "serverId is required"
    /\ cachedServers.held
    /\ response.fetched = 0

RECURSIVE SumCounts(_)
SumCounts(cats) == IF cats = <<>> THEN 0 ELSE Head(cats).count + SumCounts(Tail(cats))

\* C13: registry_list_categories lists every category an entry of the snapshot
\* has, each exactly once and with the number of entries that have it, and no
\* other category; the counts add up to the number of entries of the snapshot.
C13_CategoriesOnceAndSum ==
    response.kind = "categories" =>
        LET cats == response.categories
            got == response.got
        IN  /\ \A i, j \in DOMAIN cats : i # j => cats[i].name # cats[j].name
            /\ {cats[i].name : i \in DOMAIN cats} = {got[k].category : k \in DOMAIN got}
            /\ \A i \in DOMAIN cats :
                  cats[i].count =
                      Cardinality({k \in DOMAIN got : got[k].category = cats[i].name})
            /\ SumCounts(cats) = Len(got)

\* the example README: one official entry and two community entries
C13_Witness ==
    /\ response.kind = "categories"
    /\ Len(response.got) = 3
    /\ Len(response.categories) = 2
    /\ response.categories[2].name = STR_community
    /\ response.categories[2].count = 2

\* C14: no invocation is taken up while another is suspended on its fetch, so
\* at most one fetch is in flight at any time.
C14_OneFetchInFlight == Len(pending) <= 1

\* C15: the tool listing declares exactly the four registry tools and the
\* dispatcher has a case for exactly those: an invocation of a declared tool
\* that succeeds is answered by the operation of that name, and an invocation
\* of any other name is answered with isError true and 'Unknown tool', issues
\* no fetch and leaves cachedServers and lastFetchTime as they were.
C15_DeclaredIsHandled ==
    /\ DeclaredTools = {"registry_search_servers", "registry_get_server_details",
                        "registry_list_categories", "registry_refresh_data"}
    /\ HandledTools = DeclaredTools
    /\ \A i \in DOMAIN pending : pending[i].req.name \in DeclaredTools
    /\ response.kind # "none" =>
          LET name == response.req.name
          IN  /\ name \in DeclaredTools =>
                    /\ response.message # "Unknown tool"
                    /\ ~response.isError =>
                          response.kind \in
                              CASE name = SEARCH -> {"search"}
                                [] name = DETAILS -> {"details", "not found"}
                                [] name = CATEGORIES -> {"categories"}
                                [] name = REFRESH -> {"refresh"}
              /\ name \notin DeclaredTools =>
                    /\ response.isError
                    /\ response.message = "Unknown tool"
                    /\ response.fetched = 0
                    /\ ~response.reached
                    /\ cachedServers = response.before.cache
                    /\ lastFetchTime = response.before.last

\* a name outside the listing is refused while a snapshot is held
C15_Witness ==
    /\ response.req.name \notin DeclaredTools
    /\ response.message = "Unknown tool"
    /\ cachedServers.held
    /\ lastFetchTime > 0

\* C16: a failed invocation leaves no error state behind: the next
\* getServersData() call issues a fetch of its own, and when that fetch
\* extracts at least one entry the invocation is answered without error and
\* the cache holds the entries just fetched.
C16_FailureDoesNotPersist ==
    (Len(calls) = 2 /\ calls[1].threw) =>
        /\ calls[2].fetched = 1
        /\ (pending = <<>> /\ response.reached) =>
              /\ response.fetched = 1
              /\ response.extracted >= 1 =>
                    /\ ~response.isError
                    /\ calls[2].stored
                    /\ cachedServers = Holding(response.got)
                    /\ Len(response.got) = response.extracted
                    /\ lastFetchTime = response.now

\* a failed fetch over a stale snapshot, then a call that fetches and stores
C16_Witness ==
    /\ Len(calls) = 2
    /\ calls[1].threw
    /\ calls[1].held
    /\ calls[2].stored
    /\ calls[2].held
    /\ ~response.isError
    /\ response.fetched = 1

\* C17: the snapshot a getServersData() call returns was fetched by that call,
\* or was stored by a call that started less than CACHE_DURATION before this
\* call started; a snapshot aged CACHE_DURATION or more is not returned.
C17_ServedSnapshotIsFresh ==
    (response.reached /\ ~response.isError) =>
        \/ /\ response.fetched = 1
           /\ response.extracted = Len(response.got)
           /\ cachedServers = Holding(response.got)
           /\ lastFetchTime = response.now
        \/ /\ response.fetched = 0
           /\ response.atCall.cache = Holding(response.got)
           /\ response.atCall.last <= response.now
           /\ response.now - response.atCall.last < CACHE_DURATION
           /\ Len(calls) = 2 =>
                 \/ calls[1].stored /\ calls[1].now = response.atCall.last
                 \/ ~calls[1].stored /\ calls[1].last = response.atCall.last

\* a snapshot aged exactly CACHE_DURATION is replaced by a fetch, and one aged
\* a millisecond less has been served
C17_Witness ==
    /\ response.reached
    /\ ~response.isError
    /\ response.req.name = SEARCH
    /\ response.fetched = 1
    /\ response.atCall.cache.held
    /\ response.now - response.atCall.last = CACHE_DURATION
    /\ Len(calls) = 2
    /\ calls[1].fetched = 0
    /\ calls[1].now - calls[1].last = CACHE_DURATION - 1

\* C18: parseREADMEContent returns at most 50 entries, the first 50 in
\* discovery order: the entries of the reference pass in document order, then
\* those of the community pass in document order, then those of the fallback
\* pass in document order.
C18_FirstFiftyInDiscoveryOrder ==
    stage = "done" =>
        LET found == FallbackPass(CommunityPass(ReferencePass(<<>>, content), content),
                                  content)
            Pass(e) == IF e.author = "Anthropic" THEN 1
                       ELSE IF e.version = "0.1.0" THEN 2 ELSE 3
            OfPass(n) == LET Keep(e) == Pass(e) = n IN SelectSeq(found, Keep)
            numbers == [k \in DOMAIN content |-> k]
            InRef(k) == content[k].kind = "bullet" /\ InSectionOf(k, "refhead")
            InCom(k) == content[k].kind = "bullet" /\ InSectionOf(k, "comhead")
            Named(k) == content[k].kind \in {"bullet", "bold"}
            FirstNamed(name) ==
                CHOOSE k \in DOMAIN content :
                    /\ Named(k) /\ content[k].name = name
                    /\ \A q \in 1..(k - 1) : ~(Named(q) /\ content[q].name = name)
            refLines == SelectSeq(numbers, InRef)
            comLines == SelectSeq(numbers, InCom)
        IN  /\ Len(servers) <= 50
            /\ servers = SubSeq(found, 1, IF Len(found) < 50 THEN Len(found) ELSE 50)
            /\ \A i, j \in DOMAIN found : i < j => Pass(found[i]) <= Pass(found[j])
            /\ Len(OfPass(1)) = Len(refLines)
            /\ \A i \in DOMAIN refLines :
                  /\ OfPass(1)[i].description = content[refLines[i]].desc
                  /\ OfPass(1)[i].id =
                        <<"m","c","p","-">> \o SectionId(content[refLines[i]].name)
            /\ Len(OfPass(2)) = Len(comLines)
            /\ \A i \in DOMAIN comLines :
                  OfPass(2)[i].name = content[comLines[i]].name
            /\ \A i \in DOMAIN OfPass(3) :
                  \E k \in DOMAIN content : Named(k) /\ content[k].name = OfPass(3)[i].name
            /\ \A i, j \in DOMAIN OfPass(3) :
                  i < j => FirstNamed(OfPass(3)[i].name) < FirstNamed(OfPass(3)[j].name)

\* a community section, then a reference section of 26 bullets: 26 reference
\* entries, the community entry, and the first 23 of the 27 fallback entries
C18_Witness ==
    /\ stage = "done"
    /\ Len(servers) = 50
    /\ content[1].kind = "comhead"
    /\ servers[1].author = "Anthropic"
    /\ servers[26].author = "Anthropic"
    /\ servers[27].version = "0.1.0"
    /\ FromFallback(servers[28])
    /\ FromFallback(servers[50])
    /\ servers[50].name = GenName(22)

\* C19: a search, get-details or list-categories invocation that finds a
\* snapshot younger than CACHE_DURATION is answered from that snapshot without
\* a fetch, whatever its arguments, and leaves cachedServers (the entries and
\* their order) and lastFetchTime exactly as they were.
C19_ReadsLeaveCacheAlone ==
    ( /\ response.req.name \in {SEARCH, DETAILS, CATEGORIES}
      /\ response.reached
      /\ response.before.cache.held
      /\ response.now - response.before.last < CACHE_DURATION )
    => /\ response.fetched = 0
       /\ ~response.isError
       /\ response.got = response.before.cache.servers
       /\ cachedServers = response.before.cache
       /\ lastFetchTime = response.before.last

\* a search that lists a part of the held snapshot
C19_Witness ==
    /\ response.req.name = SEARCH
    /\ response.fetched = 0
    /\ response.reached
    /\ Len(response.entries) = 1
    /\ Len(cachedServers.servers) = 3
    /\ cachedServers = response.before.cache

\* the cache is empty with lastFetchTime 0, or holds 1 to 50 entries with
\* lastFetchTime a time at which a call can have started
CacheShape ==
    \/ /\ ~cachedServers.held
       /\ cachedServers.servers = <<>>
       /\ lastFetchTime = 0
    \/ /\ cachedServers.held
       /\ Len(cachedServers.servers) >= 1
       /\ Len(cachedServers.servers) <= 50
       /\ lastFetchTime >= StartTime
       /\ lastFetchTime <= clock

\* a step that changes the cache empties it, or is the completion of a
\* getServersData() call that fetched the entries now held and started at the
\* time now in lastFetchTime
CacheStep ==
    <<cachedServers, lastFetchTime>>' # <<cachedServers, lastFetchTime>> =>
        \/ cachedServers' = NullCache /\ lastFetchTime' = 0
        \/ /\ calls' # <<>>
           /\ calls'[Len(calls')].stored
           /\ calls'[Len(calls')].fetched = 1
           /\ lastFetchTime' = calls'[Len(calls')].now
           /\ response'.fetched = 1
           /\ response'.now = lastFetchTime'
           /\ cachedServers' = Holding(response'.got)

\* C20: with invocations one at a time, in every reachable state the cache is
\* either empty (null) with lastFetchTime 0, or holds between 1 and 50 entries
\* with lastFetchTime the start time of the getServersData() call that fetched
\* them; a held snapshot is never empty.
C20_CacheEmptyOrStored == []CacheShape /\ [][CacheStep]_vars

\* a snapshot cut to 50 entries is held, fetched by a call that started after
\* the clock had advanced
C20_Witness ==
    /\ cachedServers.held
    /\ Len(cachedServers.servers) = 50
    /\ calls # <<>>
    /\ calls[Len(calls)].stored
    /\ lastFetchTime = calls[Len(calls)].now
    /\ lastFetchTime > StartTime

\* C21: under every interleaving of invocations suspended at the fetch, a
\* step that replaces a held snapshot by another stores a timestamp that is not
\* below the one it replaces: a fetch that started earlier never overwrites
\* what a fetch that started later has stored.
C21_TimestampNeverGoesBack ==
    [][ ( /\ cachedServers.held
          /\ cachedServers'.held
          /\ <<cachedServers, lastFetchTime>>' # <<cachedServers, lastFetchTime>> )
        => lastFetchTime' >= lastFetchTime ]_vars

\* every entry parseREADMEContent has built, every entry of the cache and of
\* the snapshot an invocation got has category official or community, and
\* registry_list_categories lists no other category
OnlyTwoCategories ==
    LET Two == {<<"o","f","f","i","c","i","a","l">>,
                <<"c","o","m","m","u","n","i","t","y">>}
    IN  /\ \A i \in DOMAIN servers : servers[i].category \in Two
        /\ \A i \in DOMAIN cachedServers.servers :
              cachedServers.servers[i].category \in Two
        /\ \A i \in DOMAIN response.got : response.got[i].category \in Two
        /\ \A i \in DOMAIN response.categories : response.categories[i].name \in Two
        /\ Len(response.categories) <= 2

====
